---- MODULE Spec2Model ----
(***************************************************************************)
(* fastapi-easy-crud: the generic repository (repository.py) and the CRUD  *)
(* routes generated for one entity type (routes.py), over one table.       *)
(*                                                                         *)
(* The entity type has a primary-key column "id" and a nullable column     *)
(* "note".  A session is modelled by its snapshot of the table, its        *)
(* pending inserts and the events it logs (open, commit, close); the table *)
(* changes only when a session commits.                                    *)
(***************************************************************************)
EXTENDS Integers, Sequences, FiniteSets, TLC

MaxKey == 2
MaxVal == 1

Null == 0
Keys == 1..MaxKey
Vals == 1..MaxVal
OptVals == Vals \cup {Null}

\* the mapped entity type: its columns, primary key and nullable columns
columns == {"id", "note"}
primary_key == {"id"}
nullable == {"note"}

\* the values a column holds
python_type(c) == IF c \in primary_key THEN Keys ELSE Vals

\* the request model of the entity type: every column, the nullable ones (or
\* all of them) optional with default None
get_request_model(all_nullable) ==
    {i \in [columns -> Keys \cup OptVals] :
        \A c \in columns : \/ i[c] \in python_type(c)
                            \/ (i[c] = Null /\ (all_nullable \/ c \in nullable))}

\* the instances of the entity type a POST or PUT body yields
Items == get_request_model(FALSE)

NoSession == 0

\* values a repository method returns: None, one item, or a list of items
None_ == [kind |-> "None", rows |-> {}]
Item(r) == [kind |-> "item", rows |-> {r}]
List(S) == [kind |-> "list", rows |-> S]

\* Python truthiness of a returned value: None and [] are falsy
Truthy(res) == res.rows # {}

_get_keys_dict(item) == [c \in primary_key |-> item[c]]

\* rows of a set that carry the given primary-key values
ByKeys(rows, keys) == {r \in rows : \A c \in DOMAIN keys : r[c] = keys[c]}

-----------------------------------------------------------------------------
(* The database session.  ctx = [db, sess, log]: the committed table, the  *)
(* sessions opened during the call (by id) and the event log of the call.  *)

NewCtx(db) == [db |-> db, sess |-> <<>>, log |-> <<>>]

\* Session(engine).__enter__
SessionOpen(ctx) ==
    LET sid == Len(ctx.sess) + 1
    IN [ctx EXCEPT !.sess = Append(@, [rows |-> ctx.db, new |-> {}, open |-> TRUE]),
                   !.log = Append(@, <<"open", sid>>)]

\* Session.__exit__: close, discarding whatever was not committed
SessionClose(ctx, s) ==
    [ctx EXCEPT !.sess[s] = [rows |-> ctx.db, new |-> {}, open |-> FALSE],
                !.log = Append(@, <<"close", s>>)]

\* the INSERTs of a flush violate the primary key
FlushFails(ctx, s) ==
    \E n \in ctx.sess[s].new :
        \/ ByKeys(ctx.sess[s].rows, _get_keys_dict(n)) # {}
        \/ \E m \in ctx.sess[s].new : m # n /\ _get_keys_dict(m) = _get_keys_dict(n)

\* a commit that only flushes: nothing becomes durable
SessionCommit_flush_only(ctx, s) ==
    IF FlushFails(ctx, s)
    THEN [ctx |-> ctx, exc |-> "IntegrityError"]
    ELSE [ctx |-> [ctx EXCEPT !.sess[s].rows = @ \cup ctx.sess[s].new,
                              !.sess[s].new = {},
                              !.log = Append(@, <<"commit", s>>)],
          exc |-> ""]

\* session.commit(): flush the pending inserts, then make the snapshot durable
SessionCommit(ctx, s) ==
    IF FlushFails(ctx, s)
    THEN [ctx |-> ctx, exc |-> "IntegrityError"]
    ELSE LET rows == ctx.sess[s].rows \cup ctx.sess[s].new
         IN [ctx |-> [ctx EXCEPT !.db = rows,
                                 !.sess[s].rows = rows,
                                 !.sess[s].new = {},
                                 !.log = Append(@, <<"commit", s>>)],
             exc |-> ""]

\* session.add(item)
SessionAdd(ctx, s, item) == [ctx EXCEPT !.sess[s].new = @ \cup {item}]

\* session.delete(item): the row with the item's identity goes at the flush
SessionDelete(ctx, s, item) ==
    [ctx EXCEPT !.sess[s].rows = @ \ ByKeys(@, _get_keys_dict(item))]

\* an attribute change of a persistent item, written at the flush
SessionDirty(ctx, s, old, new) ==
    [ctx EXCEPT !.sess[s].rows = (@ \ ByKeys(@, _get_keys_dict(old))) \cup {new}]

\* session.get(entity, ident)
SessionGet(ctx, s, keys) ==
    LET found == ByKeys(ctx.sess[s].rows, keys)
    IN IF found = {} THEN None_ ELSE Item(CHOOSE r \in found : TRUE)

\* session.refresh(r) for every item of the result: reload it by identity
SessionRefresh(ctx, s, res) ==
    [res EXCEPT !.rows = UNION {ByKeys(ctx.sess[s].rows, _get_keys_dict(r)) : r \in res.rows}]

\* item_db.sqlmodel_update(data): set the attributes that data carries
sqlmodel_update(item_db, data) ==
    [c \in columns |-> IF c \in DOMAIN data THEN data[c] ELSE item_db[c]]

-----------------------------------------------------------------------------
(* repository.py                                                           *)

\* the session the decorated method runs in: the caller's, or a new one
session_of(session, ctx) == IF session = NoSession THEN Len(ctx.sess) + 1 ELSE session

\* "with Session(args[0].engine) as session" when the caller supplied none
enter(session, ctx) == IF session = NoSession THEN SessionOpen(ctx) ELSE ctx

\* the decorator, given the outcome o of origin_func run in session_of(session,
\* ctx) on enter(session, ctx): commit, refresh and close when the session is
\* the decorator's own; hand o back otherwise
transactional(o, session, ctx) ==
    IF session = NoSession
    THEN LET s == session_of(session, ctx)
             c == SessionCommit(o.ctx, s)
         IN IF o.exc # ""
            THEN [ctx |-> SessionClose(o.ctx, s), res |-> None_, exc |-> o.exc]
            ELSE IF c.exc # ""
            THEN [ctx |-> SessionClose(c.ctx, s), res |-> None_, exc |-> c.exc]
            ELSE [ctx |-> SessionClose(c.ctx, s),
                  res |-> IF Truthy(o.res) THEN SessionRefresh(c.ctx, s, o.res) ELSE o.res,
                  exc |-> ""]
    ELSE o

get_body(args, session, ctx) ==
    [ctx |-> ctx, res |-> SessionGet(ctx, session, args.keys), exc |-> ""]

get(args, session, ctx) ==
    transactional(get_body(args, session_of(session, ctx), enter(session, ctx)), session, ctx)

\* a search that filters on the null arguments too
find_body_all_kwargs(args, session, ctx) ==
    [ctx |-> ctx,
     res |-> List({r \in ctx.sess[session].rows :
                      \A k \in DOMAIN args.kwargs : r[k] = args.kwargs[k]}),
     exc |-> ""]

find_body(args, session, ctx) ==
    LET filter_by == {k \in DOMAIN args.kwargs : args.kwargs[k] # Null}
    IN [ctx |-> ctx,
        res |-> List({r \in ctx.sess[session].rows :
                         \A k \in filter_by : r[k] = args.kwargs[k]}),
        exc |-> ""]

find(args, session, ctx) ==
    transactional(find_body(args, session_of(session, ctx), enter(session, ctx)), session, ctx)

add_body(args, session, ctx) ==
    LET c == SessionCommit(SessionAdd(ctx, session, args.item), session)
    IN IF c.exc # ""
       THEN [ctx |-> c.ctx, res |-> None_, exc |-> c.exc]
       ELSE [ctx |-> c.ctx, res |-> SessionRefresh(c.ctx, session, Item(args.item)), exc |-> ""]

add(args, session, ctx) ==
    transactional(add_body(args, session_of(session, ctx), enter(session, ctx)), session, ctx)

\* a dump that leaves the null fields out
model_dump_exclude_none(item) == [c \in {c \in columns : item[c] # Null} |-> item[c]]

\* item.model_dump(): every field of the item, the null ones included
model_dump(item) == [c \in columns |-> item[c]]

\* an update that inserts the item when the key has no record
update_body_upsert(args, session, ctx) ==
    LET g == get([keys |-> _get_keys_dict(args.item)], session, ctx)
    IN IF Truthy(g.res)
       THEN LET item_db == CHOOSE r \in g.res.rows : TRUE
                new == sqlmodel_update(item_db, model_dump(args.item))
            IN [ctx |-> SessionDirty(g.ctx, session, item_db, new),
                res |-> Item(new), exc |-> ""]
       ELSE [ctx |-> SessionAdd(g.ctx, session, args.item), res |-> None_, exc |-> ""]

update_body(args, session, ctx) ==
    LET g == get([keys |-> _get_keys_dict(args.item)], session, ctx)
    IN IF Truthy(g.res)
       THEN LET item_db == CHOOSE r \in g.res.rows : TRUE
                new == sqlmodel_update(item_db, model_dump(args.item))
            IN [ctx |-> SessionDirty(g.ctx, session, item_db, new),
                res |-> Item(new), exc |-> ""]
       ELSE [ctx |-> g.ctx, res |-> None_, exc |-> ""]

update(args, session, ctx) ==
    transactional(update_body(args, session_of(session, ctx), enter(session, ctx)), session, ctx)

\* a delete that looks the item up and never deletes it
delete_body_keeps(args, session, ctx) ==
    LET g == get([keys |-> args.keys], NoSession, ctx)
    IN IF Truthy(g.res)
       THEN [ctx |-> g.ctx, res |-> None_, exc |-> ""]
       ELSE [ctx |-> g.ctx, res |-> None_, exc |-> "NotFoundError"]

\* the lookup runs through get without the session of the call
delete_body(args, session, ctx) ==
    LET g == get([keys |-> args.keys], NoSession, ctx)
    IN IF Truthy(g.res)
       THEN [ctx |-> SessionDelete(g.ctx, session, CHOOSE r \in g.res.rows : TRUE),
             res |-> None_, exc |-> ""]
       ELSE [ctx |-> g.ctx, res |-> None_, exc |-> "NotFoundError"]

delete(args, session, ctx) ==
    transactional(delete_body(args, session_of(session, ctx), enter(session, ctx)), session, ctx)

\* find returns a list, so the "res is None" branch is never taken and an
\* empty result reaches res[0]
patch_body(args, session, ctx) ==
    LET f == find([kwargs |-> args.keys], session, ctx)
    IN IF f.res.kind = "None"
       THEN [ctx |-> f.ctx, res |-> None_, exc |-> "NotFoundError"]
       ELSE IF Cardinality(f.res.rows) > 1
       THEN [ctx |-> f.ctx, res |-> None_, exc |-> "ValueError"]
       ELSE IF f.res.rows = {}
       THEN [ctx |-> f.ctx, res |-> None_, exc |-> "IndexError"]
       ELSE LET item_db == CHOOSE r \in f.res.rows : TRUE
                new == sqlmodel_update(item_db, args.kwargs)
            IN [ctx |-> SessionDirty(f.ctx, session, item_db, new),
                res |-> Item(new), exc |-> ""]

patch(args, session, ctx) ==
    transactional(patch_body(args, session_of(session, ctx), enter(session, ctx)), session, ctx)

-----------------------------------------------------------------------------
(* routes.py: each handler returns the outcome of its repository call and  *)
(* the HTTP status the client sees.                                        *)

\* the framework's answer to a handler that returned or raised: an
\* exception the handler lets through is a 500, and so is a None returned
\* where response_model is the entity type
Respond(o, none_allowed) ==
    [status |-> IF o.exc # "" THEN 500
                ELSE IF o.res.kind = "None" /\ ~none_allowed THEN 500
                ELSE 200,
     res |-> o.res, exc |-> o.exc, ctx |-> o.ctx]

HTTPException(o, status_code) ==
    [status |-> status_code, res |-> None_, exc |-> o.exc, ctx |-> o.ctx]

\* item.dict() of the patch model, the null attributes included
exclude_none_keeps(item) == [c \in columns \ primary_key |-> item[c]]

\* item.dict(exclude_none=True) of the patch model
exclude_none(item) ==
    [c \in {c \in columns \ primary_key : item[c] # Null} |-> item[c]]

default_patch(keys, item, db) ==
    Respond(patch([keys |-> keys, kwargs |-> exclude_none(item)], NoSession, NewCtx(db)), FALSE)

default_delete(keys, db) ==
    LET o == delete([keys |-> keys], NoSession, NewCtx(db))
    IN IF o.exc = "NotFoundError" THEN HTTPException(o, 404) ELSE Respond(o, TRUE)

default_put(item, db) ==
    Respond(update([item |-> item], NoSession, NewCtx(db)), FALSE)

\* a create handler that lets IntegrityError through
default_post_uncaught(item, db) ==
    Respond(add([item |-> item], NoSession, NewCtx(db)), FALSE)

default_post(item, db) ==
    LET o == add([item |-> item], NoSession, NewCtx(db))
    IN IF o.exc = "IntegrityError" THEN HTTPException(o, 409) ELSE Respond(o, FALSE)

\* a fetch handler that returns whatever the repository returned
default_get_unchecked(keys, db) ==
    Respond(get([keys |-> keys], NoSession, NewCtx(db)), FALSE)

default_get(keys, db) ==
    LET o == get([keys |-> keys], NoSession, NewCtx(db))
    IN IF o.exc = "" /\ o.res.kind = "None" THEN HTTPException(o, 404) ELSE Respond(o, FALSE)

default_find(kwargs, db) ==
    Respond(find([kwargs |-> kwargs], NoSession, NewCtx(db)), TRUE)

-----------------------------------------------------------------------------
(* The state machine: one action per route of add_base_crud_endpoints.     *)

VARIABLES table,      \* the committed rows of the entity's table
          request,    \* the last request: route, key parameters, body
          response,   \* its outcome: status, returned value, exception
          before,     \* the table as it was when the last request arrived
          sessions,   \* the session events of the last request
          lastWrite   \* per key, the last write the repository carried out

vars == <<table, request, response, before, sessions, lastWrite>>

NoItem == [c \in columns |-> Null]
NoKeys == [c \in primary_key |-> Null]
KeyDicts == [primary_key -> Keys]
\* the PATCH body: the non-key columns, each optional
PatchItems == {i \in get_request_model(TRUE) : \A c \in primary_key : i[c] = Null}
\* the query parameters of the search, each defaulting to None
Filters == get_request_model(TRUE)

NoWrite == [op |-> "NONE", item |-> NoItem]

Init ==
    /\ table = {}
    /\ request = [op |-> "NONE", keys |-> NoKeys, item |-> NoItem]
    /\ response = [status |-> 0, res |-> None_, exc |-> ""]
    /\ before = {}
    /\ sessions = <<>>
    /\ lastWrite = [k \in KeyDicts |-> NoWrite]

\* what every route does with the handler's outcome r
Serve(req, r, written) ==
    /\ request' = req
    /\ response' = [status |-> r.status, res |-> r.res, exc |-> r.exc]
    /\ before' = table
    /\ table' = r.ctx.db
    /\ sessions' = r.ctx.log
    /\ lastWrite' = IF written
                    THEN [lastWrite EXCEPT ![req.keys] =
                             [op |-> req.op,
                              item |-> IF req.op \in {"POST", "PUT"} THEN req.item ELSE NoItem]]
                    ELSE lastWrite

Post ==
    \E item \in Items :
        LET r == default_post(item, table)
        IN Serve([op |-> "POST", keys |-> _get_keys_dict(item), item |-> item],
                 r, r.exc = "")

Get ==
    \E keys \in KeyDicts :
        Serve([op |-> "GET", keys |-> keys, item |-> NoItem],
              default_get(keys, table), FALSE)

Find ==
    \E kwargs \in Filters :
        Serve([op |-> "FIND", keys |-> NoKeys, item |-> kwargs],
              default_find(kwargs, table), FALSE)

Put ==
    \E item \in Items :
        LET r == default_put(item, table)
        IN Serve([op |-> "PUT", keys |-> _get_keys_dict(item), item |-> item],
                 r, r.exc = "" /\ r.res.kind = "item")

Patch ==
    \E keys \in KeyDicts, item \in PatchItems :
        LET r == default_patch(keys, item, table)
        IN Serve([op |-> "PATCH", keys |-> keys, item |-> item],
                 r, r.exc = "" /\ r.res.kind = "item")

Delete ==
    \E keys \in KeyDicts :
        LET r == default_delete(keys, table)
        IN Serve([op |-> "DELETE", keys |-> keys, item |-> NoItem],
                 r, r.exc = "")

Next == Post \/ Get \/ Find \/ Put \/ Patch \/ Delete

Spec == Init /\ [][Next]_vars

-----------------------------------------------------------------------------
(* Properties                                                              *)

\* the request addressed a key that had a record when it arrived
KeyPresent == ByKeys(before, request.keys) # {}

\* C1: a create of a record whose key is not in the store succeeds, and a
\* fetch of that key, with no write to the key carried out since the create,
\* returns the created record, equal in every field.
C1_CreateThenFetch ==
    /\ (request.op = "POST" /\ ~KeyPresent)
          => /\ response.status = 200
             /\ lastWrite[request.keys] = [op |-> "POST", item |-> request.item]
    /\ (request.op = "GET" /\ lastWrite[request.keys].op = "POST")
          => /\ response.status = 200
             /\ response.res = Item(lastWrite[request.keys].item)

C1_Witness ==
    /\ request.op = "GET"
    /\ lastWrite[request.keys].op = "POST"
    /\ lastWrite[request.keys].item.note # Null
    /\ response.status = 200
    /\ Cardinality(table) > 1

\* C2: a create of a record whose key is already in the store answers 409
\* and leaves the store as it was.
C2_DuplicateCreateConflict ==
    (request.op = "POST" /\ KeyPresent)
        => /\ response.status = 409
           /\ table = before

C2_Witness ==
    /\ request.op = "POST"
    /\ response.status = 409
    /\ request.item \notin before
    /\ table # {}

\* C3: a partial update of a key that has no record is reported as not
\* found (NotFoundError, HTTP 404) and leaves the store as it was.
C3_PatchAbsentNotFound ==
    (request.op = "PATCH" /\ ~KeyPresent)
        => /\ response.exc = "NotFoundError"
           /\ response.status = 404
           /\ table = before

\* C4: a fetch or a delete of a key that has no record answers 404 and
\* leaves the store as it was.
C4_AbsentKeyNotFound ==
    (request.op \in {"GET", "DELETE"} /\ ~KeyPresent)
        => /\ response.status = 404
           /\ table = before

C4_Witness ==
    /\ request.op = "DELETE"
    /\ response.status = 404
    /\ response.exc = "NotFoundError"
    /\ table # {}

\* C5: a delete of a key that has a record removes exactly that record; as
\* long as no later write to the key is carried out the key has no record
\* and a fetch of it answers 404.
C5_DeleteRemovesExactly ==
    /\ (request.op = "DELETE" /\ KeyPresent)
          => /\ response.status = 200
             /\ table = before \ ByKeys(before, request.keys)
             /\ lastWrite[request.keys].op = "DELETE"
    /\ \A k \in KeyDicts :
          lastWrite[k].op = "DELETE"
             => /\ ByKeys(table, k) = {}
                /\ (request.op = "GET" /\ request.keys = k) => response.status = 404

C5_Witness ==
    /\ request.op = "GET"
    /\ lastWrite[request.keys].op = "DELETE"
    /\ response.status = 404
    /\ table # {}

\* C6: a full update with record r of a key that has a record stores r in
\* every field (null fields become null) and leaves every other record as
\* it was; a fetch of the key, with no write to the key carried out since,
\* returns r.
C6_UpdateThenFetch ==
    /\ (request.op = "PUT" /\ KeyPresent)
          => /\ response.res = Item(request.item)
             /\ table = (before \ ByKeys(before, request.keys)) \cup {request.item}
             /\ lastWrite[request.keys] = [op |-> "PUT", item |-> request.item]
    /\ (request.op = "GET" /\ lastWrite[request.keys].op = "PUT")
          => /\ response.status = 200
             /\ response.res = Item(lastWrite[request.keys].item)

C6_Witness ==
    /\ request.op = "GET"
    /\ lastWrite[request.keys].op = "PUT"
    /\ lastWrite[request.keys].item.note = Null
    /\ response.status = 200
    /\ Cardinality(table) > 1

Opened == {i \in 1..Len(sessions) : sessions[i][1] = "open"}

\* C8: every repository operation invoked without a session opens exactly
\* one session, commits it when the operation returns, and closes it before
\* the call ends; no second session is opened during the call.
C8_OneSessionPerCall ==
    request.op # "NONE"
        => /\ Cardinality(Opened) = 1
           /\ sessions[1] = <<"open", 1>>
           /\ sessions[Len(sessions)] = <<"close", 1>>
           /\ response.exc = "" => \E i \in 1..Len(sessions) : sessions[i] = <<"commit", 1>>

\* C9: a partial update of a key that has one record sets on it the non-key
\* attributes the body supplies with a non-null value and nothing else; every
\* other record stays as it was.
C9_PatchSetsOnlySupplied ==
    (request.op = "PATCH" /\ Cardinality(ByKeys(before, request.keys)) = 1)
        => LET old == CHOOSE r \in ByKeys(before, request.keys) : TRUE
               new == [c \in columns |->
                          IF c \notin primary_key /\ request.item[c] # Null
                          THEN request.item[c] ELSE old[c]]
           IN /\ response.status = 200
              /\ response.res = Item(new)
              /\ table = (before \ {old}) \cup {new}

C9_Witness ==
    /\ request.op = "PATCH"
    /\ response.status = 200
    /\ request.item.note = Null
    /\ \E r \in ByKeys(table, request.keys) : r.note # Null
    /\ Cardinality(table) > 1

\* C10: a full update of a key that has no record creates nothing: update
\* returns None, raises nothing, and the store is as it was.
C10_UpdateAbsentNoCreate ==
    (request.op = "PUT" /\ ~KeyPresent)
        => /\ response.res = None_
           /\ response.exc = ""
           /\ table = before

C10_Witness ==
    /\ request.op = "PUT"
    /\ response.res = None_
    /\ response.exc = ""
    /\ table # {}

====
